---------------------------- MODULE Spec2Model ----------------------------
(***************************************************************************)
(* A model of the vector-store core of the gateway:                        *)
(*   - redisvector.RedisClient: CreateIndexIfNotExists, InsertWithHash,    *)
(*     InsertManyWithHash, Find and the command builders behind them;      *)
(*   - DropIndex and the vector encoders of the same client;               *)
(*   - vectordb.ValidateSpec and vectordb.New;                             *)
(*   - the provider type registry and QwenProvider;                        *)
(*   - the response cache of the HTTP server (cache.get / cache.put).      *)
(* The Redis server is the environment: it keeps the created indexes and   *)
(* the hashes, and answers each command the client sends.                  *)
(***************************************************************************)
EXTENDS Integers, Sequences, FiniteSets, TLC

VARIABLES
    ftIndexes,   \* server: the index definitions created by FT.CREATE, in order
    pc,          \* per caller: position inside CreateIndexIfNotExists
    callArgs,    \* per caller: the (index, schema) arguments of its current call
    callRet,     \* per caller: the error value its last call returned
    ftLog,       \* history of calls, commands and returns of the index operations
    heap,        \* the caller-owned documents (map[string]any), by reference
    hashes,      \* server: key -> hash (field -> value)
    uuidNext,    \* number of identifiers uuid.New() has handed out
    insRet,      \* record of the last InsertWithHash / InsertManyWithHash call
    nCmds,       \* number of upsert commands sent so far
    findRet,     \* record of the last Find call
    vsRet,       \* record of the last ValidateSpec call
    newRet,      \* record of the last New call: the engine built, or the panic
    dropRet,     \* record of the last DropIndex call and the number of calls
    encRet,      \* record of the last vector encoding
    registry,    \* ProviderTypeRegistry: type tag -> adapter type
    inited,      \* the adapter variants whose package init has run
    provRet,     \* record of the last registration or Resolve
    arc,         \* the cache: its ARC (t1, t2, b1, b2, p, size)
    cachePuts,   \* history: key -> the item of the most recent put
    cacheRet     \* record of the last get / put on the cache

vars == <<ftIndexes, pc, callArgs, callRet, ftLog, heap, hashes, uuidNext,
          insRet, nCmds, findRet, vsRet, newRet, dropRet,
          encRet,
          registry,
          inited,
          provRet,
          arc,
          cachePuts,
          cacheRet>>

indexVars == <<ftIndexes, pc, callArgs, callRet, ftLog>>
insertVars == <<heap, hashes, uuidNext, insRet, nCmds>>
validateVars == <<vsRet, newRet>>
queryVars == <<findRet, validateVars>>
redisVars == <<indexVars, insertVars, queryVars, dropRet, encRet>>
providerVars == <<registry, inited, provRet>>

-----------------------------------------------------------------------------
(* Bounds of the model. *)

NumCallers == 2
MaxCalls == 2
MaxBatch == 3
MaxCmds == 2
MaxRows == 2

-----------------------------------------------------------------------------
(* Go values. *)

\* The nil error.
Nil == [kind |-> "nil"]

\* errors.New / fmt.Errorf / an error reply of the server.
Err(msg) == [kind |-> "error", msg |-> msg]

Digits == <<"0", "1", "2", "3", "4", "5", "6", "7", "8", "9">>

RECURSIVE NatToStr(_)
NatToStr(n) ==
    IF n < 10 THEN Digits[n + 1]
    ELSE NatToStr(n \div 10) \o Digits[(n % 10) + 1]

\* strconv-style decimal rendering of an integer, as fmt prints it.
IntToStr(n) == IF n < 0 THEN "-" \o NatToStr(-n) ELSE NatToStr(n)

\* A document value (the `any` of map[string]any) carries its dynamic type.
GoString(s) == [t |-> "string", v |-> s]
GoInt(n) == [t |-> "int", v |-> n]
GoInts(q) == [t |-> "[]int", v |-> q]
GoFloat32s(q) == [t |-> "[]float32", v |-> q]
GoFloat64s(q) == [t |-> "[]float64", v |-> q]

RECURSIVE JoinWith(_, _)
JoinWith(q, sep) ==
    IF q = <<>> THEN ""
    ELSE IF Len(q) = 1 THEN q[1]
    ELSE q[1] \o sep \o JoinWith(Tail(q), sep)

\* fmt.Sprintf("%v", v)
FmtV(val) ==
    CASE val.t = "string" -> val.v
      [] val.t = "int" -> IntToStr(val.v)
      [] val.t = "[]int" ->
            "[" \o JoinWith([i \in 1..Len(val.v) |-> IntToStr(val.v[i])], " ") \o "]"

\* fmt.Sprintf("%s", v): a string prints as itself, any other operand as
\* the bad-verb form %!s(type=value).
FmtS(val) ==
    CASE val.t = "string" -> val.v
      [] val.t = "int" -> "%!s(int=" \o IntToStr(val.v) \o ")"
      [] val.t = "[]int" ->
            "[" \o JoinWith([i \in 1..Len(val.v) |->
                               "%!s(int=" \o IntToStr(val.v[i]) \o ")"], " ") \o "]"

\* A string on the wire is text or, for an encoded vector, raw bytes.
Text(s) == [text |-> s]
Bytes(b) == [bytes |-> b]

\* All orders in which a Go map with key set S can be ranged over.
Perms(S) ==
    {q \in [1..Cardinality(S) -> S] : \A i, j \in 1..Cardinality(S) : i # j => q[i] # q[j]}

-----------------------------------------------------------------------------
(* Index management: CheckIndexExists and CreateIndexIfNotExists. *)

Callers == 1..NumCallers

\* The index names and schemas callers pass.
IndexNames == {"", "docs", "faq"}
Schemas == {"schemaA", "schemaB"}

getPrefix_NoColon(index) == index

\* getPrefix: fmt.Sprintf("%s:", index)
getPrefix(index) == index \o ":"

\* The &Index{...} literal built by CreateIndexIfNotExists.
NewIndex(index, schema) ==
    [Name |-> index, Schema |-> schema, Prefix |-> <<getPrefix(index)>>, IndexType |-> "HASH"]

\* Index.ToCommand: the native index-definition command
\*   FT.CREATE <name> ON <type> PREFIX <n> <prefix>... SCHEMA <schema>
IndexToCommand(ix) ==
    [Commands |-> <<"FT.CREATE">>,
     Keys |-> <<ix.Name>>,
     Args |-> <<"ON", ix.IndexType, "PREFIX", NatToStr(Len(ix.Prefix))>>
              \o ix.Prefix \o <<"SCHEMA", ix.Schema>>]

\* Whether the server holds an index of this name.
FtHasIndex(store, index) == \E i \in 1..Len(store) : store[i].name = index

\* The server's answer to FT.INFO <index>: an error exactly when it has no such index.
FtInfo(store, index) ==
    IF FtHasIndex(store, index) THEN Nil ELSE Err("Unknown index name")

\* The server's handling of FT.CREATE: <<store after, reply>>. Creating an
\* index whose name is taken is refused and changes nothing.
FtCreate(store, cmd) ==
    IF FtHasIndex(store, cmd.Keys[1])
    THEN <<store, Err("Index already exists")>>
    ELSE <<Append(store, [name |-> cmd.Keys[1],
                          on |-> cmd.Args[2],
                          prefix |-> SubSeq(cmd.Args, 5, Len(cmd.Args) - 2),
                          schema |-> cmd.Args[Len(cmd.Args)]]),
           Nil>>

CheckIndexExists_AlwaysAbsent(store, index) == FALSE

\* CheckIndexExists
CheckIndexExists(store, index) ==
    IF index = "" THEN FALSE ELSE FtInfo(store, index) = Nil

\* One entry of the history of the index operations.
Event(ev, c, index, schema, err, store) ==
    [ev |-> ev, c |-> c, index |-> index, schema |-> schema, err |-> err, store |-> store]

NumCalls == Cardinality({i \in 1..Len(ftLog) : ftLog[i].ev = "call"})

\* CreateIndexIfNotExists from its entry to its first return or, when the
\* probe finds nothing, to the point where the probe's reply has arrived and
\* the create command is about to be sent.
CreateIndexIfNotExists_Begin(c, index, schema) ==
    /\ pc[c] \in {"idle", "done"}
    /\ NumCalls < MaxCalls
    /\ callArgs' = [callArgs EXCEPT ![c] = [index |-> index, schema |-> schema]]
    /\ LET called == Append(ftLog, Event("call", c, index, schema, Nil, ftIndexes))
           probed == Append(called, Event("FT.INFO", c, index, schema, Nil, ftIndexes))
       IN IF index = ""
          THEN /\ callRet' = [callRet EXCEPT ![c] = Err("empty index name")]
               /\ pc' = [pc EXCEPT ![c] = "done"]
               /\ ftLog' = Append(called, Event("ret", c, index, schema,
                                                Err("empty index name"), ftIndexes))
          ELSE IF CheckIndexExists(ftIndexes, index)
          THEN /\ callRet' = [callRet EXCEPT ![c] = Nil]
               /\ pc' = [pc EXCEPT ![c] = "done"]
               /\ ftLog' = Append(probed, Event("ret", c, index, schema, Nil, ftIndexes))
          ELSE /\ callRet' = callRet
               /\ pc' = [pc EXCEPT ![c] = "probed"]
               /\ ftLog' = probed
    /\ UNCHANGED <<ftIndexes, insertVars, findRet, validateVars, dropRet, encRet, registry, inited, provRet, arc, cachePuts, cacheRet>>

\* The rest of CreateIndexIfNotExists: build the index definition, send the
\* create command and return the server's reply as the result.
CreateIndexIfNotExists_Create(c) ==
    /\ pc[c] = "probed"
    /\ LET index == callArgs[c].index
           schema == callArgs[c].schema
           command == IndexToCommand(NewIndex(index, schema))
           reply == FtCreate(ftIndexes, command)
       IN /\ ftIndexes' = reply[1]
          /\ callRet' = [callRet EXCEPT ![c] = reply[2]]
          /\ ftLog' = ftLog \o <<Event("FT.CREATE", c, index, schema, reply[2], reply[1]),
                                 Event("ret", c, index, schema, reply[2], reply[1])>>
    /\ pc' = [pc EXCEPT ![c] = "done"]
    /\ UNCHANGED <<callArgs, insertVars, findRet, validateVars, dropRet, encRet, registry, inited, provRet, arc, cachePuts, cacheRet>>

NoArgs == [index |-> "", schema |-> "schemaA"]
NoInsert == [op |-> "none"]
NoFind == [op |-> "none"]
NoValidate == [op |-> "none"]
NoNew == [op |-> "none"]
NoDrop == [op |-> "none", n |-> 0]
NoEncode == [op |-> "none"]
NoProvider == [op |-> "none"]
NoCache == [size |-> 0]
NoCacheOp == [op |-> "none", n |-> 0]

\* The variables of the remaining operations, before any call.
InitAux ==
    /\ encRet = NoEncode
    /\ registry = <<>>
    /\ inited = {}
    /\ provRet = NoProvider
    /\ arc = NoCache
    /\ cachePuts = <<>>
    /\ cacheRet = NoCacheOp

InitIndex ==
    /\ ftIndexes = <<>>
    /\ pc = [c \in Callers |-> "idle"]
    /\ callArgs = [c \in Callers |-> NoArgs]
    /\ callRet = [c \in Callers |-> Nil]
    /\ ftLog = <<>>

InitIndexOnly ==
    /\ InitIndex
    /\ heap = <<>>
    /\ hashes = <<>>
    /\ uuidNext = 0
    /\ insRet = NoInsert
    /\ nCmds = 0
    /\ findRet = NoFind
    /\ vsRet = NoValidate
    /\ newRet = NoNew
    /\ dropRet = NoDrop
    /\ InitAux

NextIndex ==
    \/ \E c \in Callers, index \in IndexNames, schema \in Schemas :
          CreateIndexIfNotExists_Begin(c, index, schema)
    \/ \E c \in Callers : CreateIndexIfNotExists_Create(c)

\* Concurrent callers of the index operations against an initially empty server.
SpecIndex == InitIndexOnly /\ [][NextIndex]_vars

-----------------------------------------------------------------------------
(* Properties of the index operations (checked under SpecIndex). *)

\* The positions p..r of ftLog are one whole call: its entry, the commands it
\* sent and its return, with nothing of another call in between.
WholeCall(p, r) ==
    /\ p < r
    /\ ftLog[p].ev = "call"
    /\ ftLog[r].ev = "ret"
    /\ \A i \in p..r : ftLog[i].c = ftLog[p].c
    /\ \A i \in (p + 1)..(r - 1) : ftLog[i].ev \notin {"call", "ret"}

\* A call is at most four entries long (entry, probe, create, return): the
\* positions at which a call entered at p can end.
Ends(p) == {r \in (p + 1)..(p + 3) : r <= Len(ftLog)}

\* Two whole calls in a row with the same index name and schema: p..r, then (r+1)..r2.
TwiceInARow(p, r, r2) ==
    /\ WholeCall(p, r)
    /\ r + 1 < r2
    /\ WholeCall(r + 1, r2)
    /\ ftLog[r + 1].index = ftLog[p].index
    /\ ftLog[r + 1].schema = ftLog[p].schema

AllReturned == \A c \in Callers : pc[c] # "probed"

\* The index names for which CreateIndexIfNotExists has been called.
CalledNames == {ftLog[i].index : i \in {j \in 1..Len(ftLog) : ftLog[j].ev = "call"}}

\* The index names that two different callers have called it with.
RacedNames ==
    {n \in CalledNames :
        \E i, j \in 1..Len(ftLog) :
            /\ ftLog[i].ev = "call" /\ ftLog[j].ev = "call"
            /\ ftLog[i].index = n /\ ftLog[j].index = n
            /\ ftLog[i].c # ftLog[j].c}

\* The schemas callers have passed for index name n.
CalledSchemas(n) ==
    {ftLog[i].schema : i \in {j \in 1..Len(ftLog) : ftLog[j].ev = "call" /\ ftLog[j].index = n}}

\* The server holds index n exactly once, as a HASH index on prefix "<n>:"
\* with a schema that a caller passed for n.
ExistsOnceAsBuilt(n) ==
    /\ Cardinality({i \in 1..Len(ftIndexes) : ftIndexes[i].name = n}) = 1
    /\ \A i \in 1..Len(ftIndexes) :
          ftIndexes[i].name = n =>
             /\ ftIndexes[i].on = "HASH"
             /\ ftIndexes[i].prefix = <<n \o ":">>
             /\ ftIndexes[i].schema \in CalledSchemas(n)

\* C1 (as claimed): every call of CreateIndexIfNotExists with a non-empty
\* index name returns nil, also the call whose create command the server
\* answered "Index already exists" because another caller created the index
\* between this caller's probe and its create.
C1_EveryCallerSucceeds ==
    \A i \in 1..Len(ftLog) :
        (ftLog[i].ev = "ret" /\ ftLog[i].index # "") => ftLog[i].err = Nil

\* C2 (as claimed): once all calls have returned, every index name that
\* several callers called CreateIndexIfNotExists with exists in the server
\* exactly once, with the definition built from the schema (HASH, prefix
\* "<index>:").
C2_Original ==
    AllReturned => \A n \in RacedNames : ExistsOnceAsBuilt(n)

\* C2 (amended): once all calls have returned, every NON-EMPTY index name that
\* CreateIndexIfNotExists was called with exists in the server exactly once,
\* as a HASH index on prefix "<index>:" with the schema of one of its callers,
\* whichever caller's create command ran first; the empty name is never created.
C2_RaceResolves ==
    AllReturned =>
        /\ \A n \in CalledNames \ {""} : ExistsOnceAsBuilt(n)
        /\ ~FtHasIndex(ftIndexes, "")

\* C2 witness: two callers raced on one non-empty name (both sent the create
\* command for it) and all calls have returned.
C2_Witness ==
    /\ AllReturned
    /\ \E i, j \in 1..Len(ftLog) :
          /\ ftLog[i].ev = "FT.CREATE" /\ ftLog[j].ev = "FT.CREATE"
          /\ ftLog[i].c # ftLog[j].c
          /\ ftLog[i].index = ftLog[j].index
          /\ ftLog[i].schema # ftLog[j].schema
    /\ ExistsOnceAsBuilt("docs")

\* C3 (as claimed): of two calls in a row with the same index name and schema,
\* the second leaves the server as the first left it, sends only the
\* existence probe and returns nil.
C3_Original ==
    \A p \in 1..Len(ftLog) : \A r \in Ends(p) : \A r2 \in Ends(r + 1) :
        TwiceInARow(p, r, r2) =>
            /\ ftLog[r2].store = ftLog[r].store
            /\ r2 = r + 3
            /\ ftLog[r + 2].ev = "FT.INFO"
            /\ ftLog[r2].err = Nil

\* C3 (amended): as claimed when the index name is not empty; with the empty
\* name both calls send no command at all and return the "empty index name"
\* error, and the server is left unchanged.
C3_SequentialIdempotence ==
    \A p \in 1..Len(ftLog) : \A r \in Ends(p) : \A r2 \in Ends(r + 1) :
        TwiceInARow(p, r, r2) =>
            /\ ftLog[r2].store = ftLog[r].store
            /\ IF ftLog[p].index # ""
               THEN /\ r2 = r + 3
                    /\ ftLog[r + 2].ev = "FT.INFO"
                    /\ ftLog[r2].err = Nil
                    /\ FtHasIndex(ftLog[r2].store, ftLog[p].index)
               ELSE /\ r = p + 1
                    /\ r2 = r + 2
                    /\ ftLog[r].err = Err("empty index name")
                    /\ ftLog[r2].err = Err("empty index name")
                    /\ ftLog[r2].store = ftLog[p].store

\* C3 witness: a first call that created the index, directly followed by a
\* second call with the same non-empty name and schema.
C3_Witness ==
    \E p \in 1..Len(ftLog) : \E r \in Ends(p) : \E r2 \in Ends(r + 1) :
        /\ TwiceInARow(p, r, r2)
        /\ ftLog[p].index # ""
        /\ ftLog[r - 1].ev = "FT.CREATE"
        /\ ftLog[r].err = Nil

-----------------------------------------------------------------------------
(* Document ingestion: toHmsetCommand, InsertWithHash, InsertManyWithHash. *)

\* A float is given by its IEEE-754 bit pattern (what math.Float32bits /
\* math.Float64bits return), written as base-256 digits, most significant
\* first: 1.0f = 0x3F800000 = <<63, 128, 0, 0>>.
F32One == <<63, 128, 0, 0>>
F32Half == <<63, 0, 0, 0>>
F64One == <<63, 240, 0, 0, 0, 0, 0, 0>>

\* A variant that writes the most significant byte first.
LittleEndian_BigEndian(bits) == bits

\* binary.LittleEndian.PutUint32 / PutUint64: byte j of the output holds
\* bits 8j..8j+7 of the value, so the least significant digit comes first.
LittleEndian(bits) == [j \in 1..Len(bits) |-> bits[Len(bits) + 1 - j]]

RECURSIVE Concat(_)
Concat(q) == IF q = <<>> THEN <<>> ELSE q[1] \o Concat(Tail(q))

\* float32VectorToString: 4 bytes per component, in order.
float32VectorToString(v) == Bytes(Concat([i \in 1..Len(v) |-> LittleEndian(v[i])]))

\* float64VectorToString: 8 bytes per component, in order.
float64VectorToString(v) == Bytes(Concat([i \in 1..Len(v) |-> LittleEndian(v[i])]))

\* The documents callers own. The heap holds one of each; a call names a
\* document by its reference, so the same map can be passed more than once.
DocPool ==
    << [id |-> GoString("42"), title |-> GoString("t")],
       [keys |-> GoString("k7"), emb |-> GoFloat64s(<<F64One>>)],
       [id |-> GoString("a1"), keys |-> GoString("k7")],
       [vec |-> GoFloat32s(<<F32One, F32Half>>)],
       [vec |-> GoInts(<<1, 2>>)],
       [id |-> GoInt(42)],
       [keys |-> GoInt(7)] >>

Refs == DOMAIN DocPool

\* The index names inserts are made under.
InsertIndexes == {"docs", "faq"}

\* doc[key] = value, in place.
MapSet(doc, key, value) ==
    [f \in DOMAIN doc \cup {key} |-> IF f = key THEN value ELSE doc[f]]

\* The switch of toHmsetCommand's loop body: the string stored for one value.
FieldString(value) ==
    CASE value.t = "[]float64" -> float64VectorToString(value.v)
      [] value.t = "[]float32" -> float32VectorToString(value.v)
      [] OTHER -> Text(FmtV(value))

\* A variant that writes each field's name in place of its value.
HmsetArgs_NamesOnly(doc, order) ==
    [i \in 1..(2 * Len(order)) |-> Text(order[(i + 1) \div 2])]

\* The loop of toHmsetCommand over the document, ranged over in `order`:
\* key, value, key, value, ...
HmsetArgs(doc, order) ==
    [i \in 1..(2 * Len(order)) |->
        IF i % 2 = 1 THEN Text(order[(i + 1) \div 2])
        ELSE FieldString(doc[order[i \div 2]])]

\* uuid.New().String() for the n-th identifier handed out; uuid.New never
\* returns the same identifier twice.
UuidString(n) == "uuid-" \o NatToStr(n)

toHmsetCommand_StaleUuid(prefix, doc, order, uuidx) ==
    LET args == HmsetArgs(doc, order)
        cmd(key) == [Commands |-> <<"HMSET">>, Keys |-> <<key>>, Args |-> args]
    IN IF "id" \in DOMAIN doc
       THEN [command |-> cmd(prefix \o ":" \o FmtS(doc["id"])),
             doc |-> doc, fresh |-> FALSE]
       ELSE IF "keys" \in DOMAIN doc
       THEN [command |-> cmd(prefix \o ":" \o FmtS(doc["keys"])),
             doc |-> MapSet(doc, "id", doc["keys"]), fresh |-> FALSE]
       ELSE [command |-> cmd(prefix \o ":" \o UuidString(1)),
             doc |-> MapSet(doc, "id", GoString(UuidString(1))), fresh |-> TRUE]

\* toHmsetCommand: the command, the document as the call leaves it, and
\* whether uuid.New was called. `order` is the order in which the range over
\* the map visits its keys, `uuidx` what uuid.New().String() returns if called.
toHmsetCommand(prefix, doc, order, uuidx) ==
    LET args == HmsetArgs(doc, order)
        cmd(key) == [Commands |-> <<"HMSET">>, Keys |-> <<key>>, Args |-> args]
    IN IF "id" \in DOMAIN doc
       THEN [command |-> cmd(prefix \o ":" \o FmtS(doc["id"])),
             doc |-> doc, fresh |-> FALSE]
       ELSE IF "keys" \in DOMAIN doc
       THEN [command |-> cmd(prefix \o ":" \o FmtS(doc["keys"])),
             doc |-> MapSet(doc, "id", doc["keys"]), fresh |-> FALSE]
       ELSE [command |-> cmd(prefix \o ":" \o uuidx),
             doc |-> MapSet(doc, "id", GoString(uuidx)), fresh |-> TRUE]

\* The server's handling of one HMSET key field value [field value ...]:
\* <<hashes after, reply>>. The fields are set on the hash at the key, which
\* keeps its other fields. A command the server fails changes nothing; one
\* without a field/value pair is refused.
Hmset(h, cmd, failed, pos) ==
    LET key == cmd.Keys[1]
        n == Len(cmd.Args) \div 2
        new == {cmd.Args[2 * i - 1].text : i \in 1..n}
        old == IF key \in DOMAIN h THEN h[key] ELSE <<>>
        val(f) == cmd.Args[2 * (CHOOSE i \in 1..n :
                                   /\ cmd.Args[2 * i - 1].text = f
                                   /\ \A j \in (i + 1)..n : cmd.Args[2 * j - 1].text # f)]
        hash == [f \in DOMAIN old \cup new |-> IF f \in new THEN val(f) ELSE old[f]]
    IN IF n = 0 THEN <<h, Err("ERR wrong number of arguments for 'hmset' command")>>
       ELSE IF failed THEN <<h, Err("ERR command " \o NatToStr(pos) \o " failed")>>
       ELSE <<[k \in DOMAIN h \cup {key} |-> IF k = key THEN hash ELSE h[k]], Nil>>

\* The server's handling of a pipeline: the commands run one after another,
\* each failing or not on its own. acc is <<hashes, replies so far>>.
RECURSIVE Pipeline(_, _, _, _)
Pipeline(acc, commands, fails, pos) ==
    IF pos > Len(commands) THEN acc
    ELSE Pipeline(LET one == Hmset(acc[1], commands[pos], pos \in fails, pos)
                  IN <<one[1], Append(acc[2], one[2])>>,
                  commands, fails, pos + 1)

\* client.Do: one command, a pipeline of one.
Do(h, command, failed) ==
    LET r == Pipeline(<<h, <<>>>>, <<command>>, IF failed THEN {1} ELSE {}, 1)
    IN <<r[1], r[2][1]>>

\* client.DoMulti: all the commands as one pipeline; one reply per command.
DoMulti(h, commands, fails) == Pipeline(<<h, <<>>>>, commands, fails, 1)

\* errors.Join: nil when there is no error to join, else an error wrapping them.
ErrorsJoin(errs) == IF errs = <<>> THEN Nil ELSE [kind |-> "joined", errs |-> errs]

CollectErrors_FirstOnly(result) ==
    LET bad == SelectSeq(result, LAMBDA res : res # Nil)
    IN IF bad = <<>> THEN <<>> ELSE <<bad[1]>>

\* The second loop of InsertManyWithHash: the errors of the replies, in order.
CollectErrors(result) == SelectSeq(result, LAMBDA res : res # Nil)

DocIDs_Reversed(commands) ==
    [i \in 1..Len(commands) |-> commands[Len(commands) + 1 - i].Keys[1]]

\* docIDs as the first loop of InsertManyWithHash fills it: the key of each
\* command, in the order the commands were built.
DocIDs(commands) == [i \in 1..Len(commands) |-> commands[i].Keys[1]]

\* The first loop of InsertManyWithHash from position `from` on. acc holds the
\* commands built so far, the heap and the number of uuids handed out.
RECURSIVE BuildCommands(_, _, _, _, _)
BuildCommands(index, refs, orders, acc, from) ==
    IF from > Len(refs) THEN acc
    ELSE BuildCommands(index, refs, orders,
            LET one == toHmsetCommand(index, acc.heap[refs[from]], orders[from],
                                      UuidString(acc.uuids + 1))
            IN [commands |-> Append(acc.commands, one.command),
                heap |-> [acc.heap EXCEPT ![refs[from]] = one.doc],
                uuids |-> IF one.fresh THEN acc.uuids + 1 ELSE acc.uuids],
            from + 1)

\* The key set of the document at position i of a batch when the first loop
\* reaches it: a document that also stands at an earlier position has been
\* given its `id` by then.
KeysAt(refs, i) ==
    DOMAIN heap[refs[i]] \cup (IF \E j \in 1..(i - 1) : refs[j] = refs[i] THEN {"id"} ELSE {})

\* What a call of InsertWithHash / InsertManyWithHash did.
InsertRecord(op, index, refs, built, reply, keys, err) ==
    [op |-> op, index |-> index, refs |-> refs,
     before |-> heap,              \* the documents as the caller passed them
     uuidsBefore |-> uuidNext,
     keysBefore |-> DOMAIN hashes,   \* the keys the server held before the call
     batches |-> <<built.commands>>, \* each Do / DoMulti submission
     replies |-> reply[2],
     keys |-> keys, err |-> err]

\* InsertWithHash; `failed` is whether the server fails the command.
InsertWithHash(index, ref, order, failed) ==
    /\ LET built == BuildCommands(index, <<ref>>, <<order>>,
                                  [commands |-> <<>>, heap |-> heap, uuids |-> uuidNext], 1)
           command == built.commands[1]
           reply == Do(hashes, command, failed)
       IN /\ heap' = built.heap
          /\ uuidNext' = built.uuids
          /\ hashes' = reply[1]
          /\ insRet' = InsertRecord("InsertWithHash", index, <<ref>>, built,
                                    <<reply[1], <<reply[2]>>>>, <<command.Keys[1]>>, reply[2])
    /\ nCmds' = nCmds + 1
    /\ UNCHANGED <<indexVars, findRet, validateVars, dropRet, encRet, registry, inited, provRet, arc, cachePuts, cacheRet>>

\* InsertManyWithHash; `fails` are the positions of the commands the server fails.
InsertManyWithHash(index, refs, orders, fails) ==
    /\ LET built == BuildCommands(index, refs, orders,
                                  [commands |-> <<>>, heap |-> heap, uuids |-> uuidNext], 1)
           docIDs == DocIDs(built.commands)
           result == DoMulti(hashes, built.commands, fails)
           errs == CollectErrors(result[2])
       IN /\ heap' = built.heap
          /\ uuidNext' = built.uuids
          /\ hashes' = result[1]
          /\ insRet' = InsertRecord("InsertManyWithHash", index, refs, built,
                                    result, docIDs, ErrorsJoin(errs))
    /\ nCmds' = nCmds + Len(refs)
    /\ UNCHANGED <<indexVars, findRet, validateVars, dropRet, encRet, registry, inited, provRet, arc, cachePuts, cacheRet>>

InitInsert ==
    /\ InitIndex
    /\ heap = DocPool
    /\ hashes = <<>>
    /\ uuidNext = 0
    /\ insRet = NoInsert
    /\ nCmds = 0
    /\ findRet = NoFind
    /\ vsRet = NoValidate
    /\ newRet = NoNew
    /\ dropRet = NoDrop
    /\ InitAux

\* The batch sizes still within the bounds.
BatchSizes == {n \in 0..MaxBatch : nCmds + n <= MaxCmds}

\* One order of ranging over a map with key set S.
SomeOrder(S) == CHOOSE q \in Perms(S) : TRUE

\* The documents batches are made of: one with an `id`, one with `id` and
\* `keys`, and the two with neither (a float32 vector, an []int vector).
BatchRefs == {1, 3, 4, 5}

\* One call of either insert operation; the server may fail any command. A
\* single insert ranges over its document in any order; in a batch the order
\* of each range is fixed: it decides neither the key, nor what is done to
\* the document, nor the hash the server keeps.
NextInsertOnce ==
    \/ \E index \in InsertIndexes, ref \in {r \in Refs : insRet = NoInsert}, failed \in BOOLEAN :
          \E order \in Perms(DOMAIN heap[ref]) :
             InsertWithHash(index, ref, order, failed)
    \/ \E index \in InsertIndexes, n \in {m \in 0..MaxBatch : insRet = NoInsert} :
          \E refs \in [1..n -> BatchRefs], fails \in SUBSET (1..n) :
             InsertManyWithHash(index, refs, [i \in 1..n |-> SomeOrder(KeysAt(refs, i))], fails)

SpecInsertOnce == InitInsert /\ [][NextInsertOnce]_vars

\* A sequence of calls of the insert operations on a server that answers
\* every command, each range taking the fixed order.
NextInsert ==
    \/ \E index \in InsertIndexes, ref \in {r \in Refs : nCmds < MaxCmds} :
          InsertWithHash(index, ref, SomeOrder(DOMAIN heap[ref]), FALSE)
    \/ \E index \in InsertIndexes, n \in BatchSizes :
          \E refs \in [1..n -> Refs] :
             InsertManyWithHash(index, refs, [i \in 1..n |-> SomeOrder(KeysAt(refs, i))], {})

SpecInsert == InitInsert /\ [][NextInsert]_vars

-----------------------------------------------------------------------------
(* Properties of the insert operations. *)

IsBatch == insRet.op = "InsertManyWithHash"

\* The commands the last call submitted in its (first) submission.
Submitted == insRet.batches[1]

\* The positions of the last call whose command the server failed.
FailedPositions == {i \in 1..Len(insRet.replies) : insRet.replies[i] # Nil}

\* The fields a command sets, and the value it sets field f to.
CmdFields(cmd) == {cmd.Args[2 * k - 1].text : k \in 1..(Len(cmd.Args) \div 2)}
CmdValue(cmd, f) ==
    cmd.Args[2 * (CHOOSE k \in 1..(Len(cmd.Args) \div 2) : cmd.Args[2 * k - 1].text = f)]

\* The server holds what command i of the last call wrote: its key, and each
\* of its fields with the command's value unless a later command of the call,
\* not failed, set the same field of the same key.
Written(i) ==
    LET cmd == Submitted[i]
        key == cmd.Keys[1]
    IN /\ key \in DOMAIN hashes
       /\ \A f \in CmdFields(cmd) :
             \/ \E j \in (i + 1)..Len(Submitted) :
                   /\ j \notin FailedPositions
                   /\ Submitted[j].Keys[1] = key
                   /\ f \in CmdFields(Submitted[j])
             \/ /\ f \in DOMAIN hashes[key]
                /\ hashes[key][f] = CmdValue(cmd, f)

\* C4: InsertManyWithHash does not stop at the first failing command. For
\* every batch and every set of commands the server fails, all commands are
\* submitted and answered, every document whose command did not fail is
\* written, and the combined error is nil exactly when no command failed and
\* otherwise holds the errors of the failed commands, one each, in order.
C4_NoAbortOnFailure ==
    IsBatch =>
        /\ Len(insRet.batches) = 1
        /\ Len(Submitted) = Len(insRet.refs)
        /\ Len(insRet.replies) = Len(insRet.refs)
        /\ \A i \in 1..Len(insRet.refs) : i \notin FailedPositions => Written(i)
        /\ (insRet.err = Nil) <=> (FailedPositions = {})
        /\ FailedPositions # {} =>
              /\ insRet.err.kind = "joined"
              /\ Len(insRet.err.errs) = Cardinality(FailedPositions)
              /\ \A i \in FailedPositions :
                    insRet.err.errs[Cardinality({j \in FailedPositions : j <= i})]
                       = insRet.replies[i]

\* C4 witness: a batch of three whose first and last commands failed and whose
\* second document was written all the same.
C4_Witness ==
    /\ IsBatch
    /\ Len(insRet.refs) = 3
    /\ FailedPositions = {1, 3}
    /\ Written(2)
    /\ Len(insRet.err.errs) = 2

\* C5: InsertManyWithHash submits exactly one pipelined batch, holding one
\* upsert command per input document in input order (command i carries the
\* fields of document i and is keyed by the identifier document i ends up
\* with), and returns as many keys as documents, the i-th being the key of
\* document i's command, whether the server failed that command or not.
C5_PositionalAlignment ==
    IsBatch =>
        /\ Len(insRet.batches) = 1
        /\ Len(Submitted) = Len(insRet.refs)
        /\ Len(insRet.keys) = Len(insRet.refs)
        /\ \A i \in 1..Len(insRet.refs) :
              LET doc == heap[insRet.refs[i]]
              IN /\ Submitted[i].Commands = <<"HMSET">>
                 /\ insRet.keys[i] = Submitted[i].Keys[1]
                 /\ CmdFields(Submitted[i]) \in {DOMAIN doc, DOMAIN doc \ {"id"}}
                 /\ doc["id"].t = "string" =>
                       insRet.keys[i] = insRet.index \o ":" \o doc["id"].v

\* C5 witness: a batch of three different documents, the second of which failed.
C5_Witness ==
    /\ IsBatch
    /\ Len(insRet.refs) = 3
    /\ Cardinality({insRet.refs[i] : i \in 1..3}) = 3
    /\ FailedPositions = {2}
    /\ Cardinality({insRet.keys[i] : i \in 1..3}) = 3

\* Whether a document, as the caller passed it, has a vector field of a type
\* other than []float32 and []float64.
HasUnsupportedVector(doc) == \E f \in DOMAIN doc : doc[f].t = "[]int"

\* C6 (as claimed): a document whose vector field has an unsupported type
\* makes its own command fail, so the batch's combined error is not nil and
\* names that position.
C6_UnsupportedVectorFails ==
    IsBatch =>
        \A i \in 1..Len(insRet.refs) :
            HasUnsupportedVector(insRet.before[insRet.refs[i]]) =>
                /\ i \in FailedPositions
                /\ insRet.err # Nil

\* The document at position i of the last call as the call reached it: as the
\* caller passed it, unless it also stands at an earlier position of the batch
\* (then it is as that earlier visit left it, which is how it still is).
DocAt(i) ==
    IF \E j \in 1..(i - 1) : insRet.refs[j] = insRet.refs[i]
    THEN heap[insRet.refs[i]]
    ELSE insRet.before[insRet.refs[i]]

\* An identifier written out as text: a string as it is, a number in decimal.
IdText(val) == IF val.t = "string" THEN val.v ELSE IntToStr(val.v)

\* C7 (as claimed): the identifier of an insert is the document's `id` if it
\* has one, else its `keys`, else a freshly generated one, and the key of the
\* upsert command, which is also the key returned, is "<index>:<identifier>".
C7_KeyByPriority ==
    insRet.op # "none" =>
        \A i \in 1..Len(insRet.refs) :
            LET doc == DocAt(i)
                key == insRet.keys[i]
                after == heap[insRet.refs[i]]
            IN /\ key = Submitted[i].Keys[1]
               /\ IF "id" \in DOMAIN doc
                  THEN key = insRet.index \o ":" \o IdText(doc["id"])
                  ELSE IF "keys" \in DOMAIN doc
                  THEN key = insRet.index \o ":" \o IdText(doc["keys"])
                  ELSE /\ after["id"].t = "string"
                       /\ key = insRet.index \o ":" \o after["id"].v
                       /\ \A r \in Refs : \A f \in DOMAIN insRet.before[r] \cap {"id", "keys"} :
                             insRet.before[r][f] # after["id"]

\* The positions of the last call whose document carried neither `id` nor
\* `keys` when the call reached it.
FreshPositions ==
    {i \in 1..Len(insRet.refs) : DOMAIN DocAt(i) \cap {"id", "keys"} = {}}

-----------------------------------------------------------------------------
(* Search: Find and the conversion of the rows of an FT.SEARCH reply.      *)
(* A row's field values are strings, kept here as tuples of characters so  *)
(* that parsing them is computed.                                          *)

IsDigit(ch) == \E d \in 1..10 : Digits[d] = ch
DigitVal(ch) == (CHOOSE d \in 1..10 : Digits[d] = ch) - 1

\* A float value as the decimal it was read from: mant / 10^frac, with no
\* trailing zero in the fraction.
RECURSIVE Decimal(_, _)
Decimal(mant, frac) ==
    IF frac > 0 /\ mant % 10 = 0 THEN Decimal(mant \div 10, frac - 1)
    ELSE [mant |-> mant, frac |-> frac]

\* The digits of s from position i on, read as one natural number.
RECURSIVE ReadDigits(_, _, _)
ReadDigits(s, i, acc) ==
    IF i > Len(s) THEN acc
    ELSE ReadDigits(s, i + 1, IF s[i] = "." THEN acc ELSE 10 * acc + DigitVal(s[i]))

\* strconv.ParseFloat(s, 32) on plain decimals [+-]digits[.digits]: the
\* value and a nil error, or 0 and a syntax error.  (Exponents, hex floats,
\* "inf" and "nan" are not among the strings the model produces.)
ParseFloat(s) ==
    LET signed == Len(s) > 0 /\ s[1] \in {"+", "-"}
        from == IF signed THEN 2 ELSE 1
        dots == {i \in from..Len(s) : s[i] = "."}
        wellFormed ==
            /\ \A i \in from..Len(s) : s[i] = "." \/ IsDigit(s[i])
            /\ Cardinality(dots) <= 1
            /\ \E i \in from..Len(s) : IsDigit(s[i])
        frac == IF dots = {} THEN 0 ELSE Len(s) - (CHOOSE i \in dots : TRUE)
        mant == ReadDigits(s, from, 0)
    IN  IF wellFormed
        THEN [value |-> Decimal(IF signed /\ s[1] = "-" THEN -mant ELSE mant, frac),
              err |-> Nil]
        ELSE [value |-> Decimal(0, 0), err |-> Err("strconv.ParseFloat: invalid syntax")]

\* float32(score), held in a map[string]any.
GoFloat32(x) == [t |-> "float32", v |-> x]

\* A variant of the loop body that copies every field under its own name.
RangeField_NoRename(docMap, k, field) == MapSet(docMap, k, GoString(field))

\* The body of the loop over the fields of one row.
RangeField(docMap, k, field) ==
    IF k = "distance"
    THEN MapSet(docMap, "score", GoFloat32(ParseFloat(field).value))
    ELSE MapSet(docMap, k, GoString(field))

\* The loop over doc.Doc, ranging over the map in the given order.
RECURSIVE RangeDoc(_, _, _, _)
RangeDoc(docMap, fields, order, from) ==
    IF from > Len(order) THEN docMap
    ELSE RangeDoc(RangeField(docMap, order[from], fields[order[from]]),
                  fields, order, from + 1)

\* One row of the reply converted to a document mapping.
ConvertDoc(doc, order) ==
    LET docMap == RangeDoc(<<>>, doc.Doc, order, 1)
    IN  IF "id" \in DOMAIN docMap THEN docMap
        ELSE MapSet(docMap, "id", GoString(doc.Key))

\* A variant that returns the documents in the opposite order.
convertFTSearchResIntoMapSchema_Reversed(docs, orders) ==
    [i \in 1..Len(docs) |->
        ConvertDoc(docs[Len(docs) + 1 - i], orders[Len(docs) + 1 - i])]

convertFTSearchResIntoMapSchema(docs, orders) ==
    [i \in 1..Len(docs) |-> ConvertDoc(docs[i], orders[i])]

\* The rows the server can answer with (rueidis.FtSearchDoc: Key and Doc).
RowPool == <<
    [Key |-> <<"d", ":", "a">>,
     Doc |-> [distance |-> <<"0", ".", "1", "2">>, title |-> <<"t">>]],
    [Key |-> <<"d", ":", "b">>,
     Doc |-> [id |-> <<"b", "7">>, distance |-> <<"-", "1", ".", "5", "0">>]],
    [Key |-> <<"d", ":", "c">>,
     Doc |-> [distance |-> <<"0", ".", "1", "2">>, score |-> <<"9">>]],
    [Key |-> <<"d", ":", "d">>,
     Doc |-> [distance |-> <<"n", "/", "a">>]],
    [Key |-> <<"d", ":", "e">>,
     Doc |-> [title |-> <<"t">>]] >>

\* A row of the reply together with the order its fields are ranged over.
RowChoices ==
    UNION {{<<r, o>> : o \in Perms(DOMAIN RowPool[r].Doc)} : r \in 1..Len(RowPool)}

\* The server's answers to FT.SEARCH: an error, or a total and the rows.
FtSearchError == [total |-> 0, docs |-> <<>>, err |-> Err("search failed")]
FtSearchReply(total, docs) == [total |-> total, docs |-> docs, err |-> Nil]

Find(reply, orders) ==
    /\ findRet = NoFind
    /\ findRet' =
          IF reply.err # Nil
          THEN [op |-> "Find", reply |-> reply, orders |-> orders,
                total |-> 0, docs |-> <<>>, err |-> reply.err]
          ELSE [op |-> "Find", reply |-> reply, orders |-> orders,
                total |-> reply.total,
                docs |-> convertFTSearchResIntoMapSchema(reply.docs, orders),
                err |-> Nil]
    /\ UNCHANGED <<indexVars, insertVars, validateVars, dropRet, encRet, registry, inited, provRet, arc, cachePuts, cacheRet>>

NextFind ==
    \/ Find(FtSearchError, <<>>)
    \/ \E n \in {m \in 0..MaxRows : findRet = NoFind} :
          \E picks \in [1..n -> RowChoices], more \in 0..1 :
             Find(FtSearchReply(n + more, [i \in 1..n |-> RowPool[picks[i][1]]]),
                  [i \in 1..n |-> picks[i][2]])

SpecFind == InitIndexOnly /\ [][NextFind]_vars

\* The rows of a successful Find: position, native row and converted document.
FoundRows == IF findRet.op = "Find" /\ findRet.err = Nil
             THEN 1..Len(findRet.docs) ELSE {}
RowIn(i) == findRet.reply.docs[i]
DocOut(i) == findRet.docs[i]

\* The identifier is the row's own "id" field, else the row's native key.
IdRule(i) ==
    /\ "id" \in DOMAIN DocOut(i)
    /\ DocOut(i).id = IF "id" \in DOMAIN RowIn(i).Doc
                      THEN GoString(RowIn(i).Doc.id)
                      ELSE GoString(RowIn(i).Key)

\* The value "distance" is stored as: its parsed value as a float32.
ScoreOf(i) == GoFloat32(ParseFloat(RowIn(i).Doc.distance).value)

\* C9 as stated: "distance" appears as "score" with its parsed value and
\* never as "distance", every other field passes through unchanged, and id
\* is the row's own id or else the row's native key.
C9_Original ==
    \A i \in FoundRows :
       /\ "distance" \notin DOMAIN DocOut(i)
       /\ ("distance" \in DOMAIN RowIn(i).Doc
           /\ ParseFloat(RowIn(i).Doc.distance).err = Nil)
             => ("score" \in DOMAIN DocOut(i) /\ DocOut(i).score = ScoreOf(i))
       /\ \A k \in DOMAIN RowIn(i).Doc \ {"distance"} :
             k \in DOMAIN DocOut(i) /\ DocOut(i)[k] = GoString(RowIn(i).Doc[k])
       /\ IdRule(i)

\* C9, amended: Find returns the server's total and one document per row,
\* in the order of the reply.  No document has a "distance" key; every
\* field other than "distance" and "score" passes through as returned; id
\* is the row's own id or else its native key.  A row with "distance" and no
\* "score" field of its own gets score = the float32 parsed from distance,
\* which is 0 when the text does not parse.  A row with both fields gets
\* under "score" whichever of the two the map iteration writes last: the
\* parsed distance or the stored score text.
C9_RowConversion ==
    /\ findRet.op = "Find" /\ findRet.err = Nil =>
          /\ findRet.total = findRet.reply.total
          /\ Len(findRet.docs) = Len(findRet.reply.docs)
    /\ \A i \in FoundRows :
          LET row == RowIn(i).Doc
              out == DocOut(i)
          IN  /\ "distance" \notin DOMAIN out
              /\ DOMAIN out = ((DOMAIN row \ {"distance"}) \cup {"id"})
                                \cup (IF "distance" \in DOMAIN row
                                      THEN {"score"} ELSE {})
              /\ \A k \in DOMAIN row \ {"distance", "score"} :
                    out[k] = GoString(row[k])
              /\ IdRule(i)
              /\ ("distance" \in DOMAIN row /\ "score" \notin DOMAIN row) =>
                    /\ out.score = ScoreOf(i)
                    /\ ParseFloat(row.distance).err # Nil =>
                          out.score = GoFloat32(Decimal(0, 0))
              /\ ("distance" \in DOMAIN row /\ "score" \in DOMAIN row) =>
                    out.score \in {ScoreOf(i), GoString(row.score)}
              /\ ("distance" \notin DOMAIN row /\ "score" \in DOMAIN row) =>
                    out.score = GoString(row.score)

\* A Find whose reply holds the row with distance "0.12" and no id (score
\* 0.12, id = the native key), and a row carrying its own id.
C9_Witness ==
    /\ findRet.op = "Find" /\ findRet.err = Nil
    /\ Len(findRet.docs) = 2
    /\ RowIn(1).Doc = [distance |-> <<"0", ".", "1", "2">>, title |-> <<"t">>]
    /\ DocOut(1) = [score |-> GoFloat32([mant |-> 12, frac |-> 2]),
                    title |-> GoString(<<"t">>),
                    id |-> GoString(<<"d", ":", "a">>)]
    /\ "id" \in DOMAIN RowIn(2).Doc
    /\ DocOut(2).id = GoString(<<"b", "7">>)

-----------------------------------------------------------------------------
(* vectordb.ValidateSpec.  Thresholds are float64 values, kept in          *)
(* hundredths; NaN is the one value every comparison is false for.         *)

F64(n) == [nan |-> FALSE, v |-> n]
NaN == [nan |-> TRUE, v |-> 0]

\* Go's <= and > on float64.
FloatLE(a, b) == ~a.nan /\ ~b.nan /\ a.v <= b.v
FloatGT(a, b) == ~a.nan /\ ~b.nan /\ a.v > b.v

\* The literal 1.0 of the threshold check, in hundredths.
ThresholdOne == 100

TypeRedis == "redis"
TypePostgres == "postgres"

\* The engine-specific sub-specs (spec.Redis, spec.Postgres): a nil pointer
\* or a sub-spec, each with the verdict the engine's validator gives on it.
SubSpecs(engine) ==
    {[isNil |-> TRUE, verdict |-> Err("invalid " \o engine \o " spec: nil")],
     [isNil |-> FALSE, verdict |-> Nil],
     [isNil |-> FALSE, verdict |-> Err("invalid " \o engine \o " spec")]}

\* The engine validators, validating the sub-spec independently of CommonSpec.
redisvectorValidateSpec(sub) == sub.verdict
pgvectorValidateSpec(sub) == sub.verdict

\* The result of a validation: the error and what was consulted, in order.
Validated(err, consulted) == [err |-> err, consulted |-> consulted]

\* A variant that dispatches on the type tag before looking at the threshold.
ValidateSpec_TypeFirst(spec) ==
    LET dispatched ==
          CASE spec.Type = TypeRedis ->
                 Validated(redisvectorValidateSpec(spec.Redis),
                           <<"type", "redisvector.ValidateSpec">>)
            [] spec.Type = TypePostgres ->
                 Validated(pgvectorValidateSpec(spec.Postgres),
                           <<"type", "pgvector.ValidateSpec">>)
            [] OTHER -> Validated(Err("invalid spec type"), <<"type">>)
    IN  IF dispatched.err # Nil THEN dispatched
        ELSE IF FloatLE(spec.Threshold, F64(0)) \/ FloatGT(spec.Threshold, F64(ThresholdOne))
        THEN Validated(Err("invalid threshold"), dispatched.consulted \o <<"threshold">>)
        ELSE Validated(Nil, dispatched.consulted \o <<"threshold">>)

ValidateSpec(spec) ==
    IF FloatLE(spec.Threshold, F64(0)) \/ FloatGT(spec.Threshold, F64(ThresholdOne))
    THEN Validated(Err("invalid threshold"), <<"threshold">>)
    ELSE CASE spec.Type = TypeRedis ->
                Validated(redisvectorValidateSpec(spec.Redis),
                          <<"threshold", "type", "redisvector.ValidateSpec">>)
           [] spec.Type = TypePostgres ->
                Validated(pgvectorValidateSpec(spec.Postgres),
                          <<"threshold", "type", "pgvector.ValidateSpec">>)
           [] OTHER -> Validated(Err("invalid spec type"), <<"threshold", "type">>)

\* The specs a caller can hand in.
Thresholds == {F64(-50), F64(0), F64(1), F64(50), F64(100), F64(101), F64(200), NaN}
TypeTags == {TypeRedis, TypePostgres, "mysql", ""}
StoreSpecs ==
    [Threshold : Thresholds, Type : TypeTags,
     Redis : SubSpecs("redis"), Postgres : SubSpecs("postgres")]

ValidateSpec_Call(spec) ==
    /\ vsRet = NoValidate
    /\ vsRet' = [op |-> "ValidateSpec", spec |-> spec,
                 err |-> ValidateSpec(spec).err,
                 consulted |-> ValidateSpec(spec).consulted]
    /\ UNCHANGED <<indexVars, insertVars, findRet, newRet, dropRet, encRet, registry, inited, provRet, arc, cachePuts, cacheRet>>

\* The engine constructors: the handle of the engine built from the shared
\* CommonSpec and the engine's own sub-spec.
redisvectorNew(common, sub) == [engine |-> TypeRedis, common |-> common, sub |-> sub]
pgvectorNew(common, sub) == [engine |-> TypePostgres, common |-> common, sub |-> sub]

\* &spec.CommonSpec: the fields shared by all store types.
CommonSpec(spec) == [Threshold |-> spec.Threshold, Type |-> spec.Type]

\* What a call of New comes to: a VectorDB, or a panic.
Built(db) == [panic |-> "", db |-> db]
Panic(msg) == [panic |-> msg]

\* A variant that builds the redis engine whatever the tag is.
New_AlwaysRedis(spec) == Built(redisvectorNew(CommonSpec(spec), spec.Redis))

New(spec) ==
    CASE spec.Type = TypeRedis -> Built(redisvectorNew(CommonSpec(spec), spec.Redis))
      [] spec.Type = TypePostgres -> Built(pgvectorNew(CommonSpec(spec), spec.Postgres))
      [] OTHER -> Panic("not supported vector db type")

New_Call(spec) ==
    /\ newRet = NoNew
    /\ newRet' = [op |-> "New", spec |-> spec, outcome |-> New(spec)]
    /\ UNCHANGED <<indexVars, insertVars, findRet, vsRet, dropRet, encRet, registry, inited, provRet, arc, cachePuts, cacheRet>>

\* New runs on any spec when nothing was validated (New does not
\* re-validate), and otherwise on the spec that was validated.
NextValidate ==
    \/ \E spec \in {sp \in StoreSpecs : vsRet = NoValidate /\ newRet = NoNew} :
          ValidateSpec_Call(spec)
    \/ \E spec \in {sp \in StoreSpecs :
                      newRet = NoNew /\ (vsRet = NoValidate \/ vsRet.spec = sp)} :
          New_Call(spec)

SpecValidate == InitIndexOnly /\ [][NextValidate]_vars

InRange(t) == ~t.nan /\ 0 < t.v /\ t.v <= 100
OutOfRange(t) == ~t.nan /\ (t.v <= 0 \/ t.v > 100)

\* C10 as stated: every threshold in (0, 1.0] is accepted; every threshold
\* <= 0 or > 1.0 is rejected, before the type tag or the engine validator
\* is consulted.
C10_Original ==
    vsRet.op = "ValidateSpec" =>
       /\ InRange(vsRet.spec.Threshold) => vsRet.err = Nil
       /\ OutOfRange(vsRet.spec.Threshold) =>
             vsRet.err # Nil /\ vsRet.consulted = <<"threshold">>

\* C10, amended: a threshold <= 0 or > 1.0 is rejected with "invalid
\* threshold" before the type tag or an engine validator is consulted.  A
\* threshold in (0, 1.0] passes the threshold check, and the result is then
\* that of the dispatch on the type tag: the redis or postgres validator's
\* verdict on its sub-spec, or "invalid spec type" for any other tag; so the
\* spec is accepted only if the tag is known and the engine validator accepts.
C10_ThresholdFirst ==
    vsRet.op = "ValidateSpec" =>
       LET spec == vsRet.spec
       IN  /\ OutOfRange(spec.Threshold) =>
                 /\ vsRet.err = Err("invalid threshold")
                 /\ vsRet.consulted = <<"threshold">>
           /\ InRange(spec.Threshold) =>
                 /\ vsRet.consulted[1] = "threshold"
                 /\ spec.Type = "redis" =>
                       /\ vsRet.err = spec.Redis.verdict
                       /\ vsRet.consulted[3] = "redisvector.ValidateSpec"
                 /\ spec.Type = "postgres" =>
                       /\ vsRet.err = spec.Postgres.verdict
                       /\ vsRet.consulted[3] = "pgvector.ValidateSpec"
                 /\ spec.Type \notin {"redis", "postgres"} =>
                       /\ vsRet.err = Err("invalid spec type")
                       /\ vsRet.consulted = <<"threshold", "type">>
                 /\ vsRet.err = Nil <=>
                       \/ spec.Type = "redis" /\ spec.Redis.verdict = Nil
                       \/ spec.Type = "postgres" /\ spec.Postgres.verdict = Nil

\* A spec with threshold 1.01, an unknown type tag and a nil sub-spec is
\* rejected for its threshold alone.
C10_Witness ==
    /\ vsRet.op = "ValidateSpec"
    /\ vsRet.spec.Threshold = F64(101)
    /\ vsRet.spec.Type = "mysql"
    /\ vsRet.spec.Redis.isNil
    /\ vsRet.err = Err("invalid threshold")
    /\ vsRet.consulted = <<"threshold">>

-----------------------------------------------------------------------------
(* Validation and construction. *)

\* C11: if ValidateSpec returned no error, New on the same spec does not
\* panic and builds the engine named by the type tag; for a type tag other
\* than "redis" and "postgres" ValidateSpec returns an error value and New
\* panics with "not supported vector db type".
C11_ValidationGuardsNew ==
    /\ (vsRet.op = "ValidateSpec" /\ newRet.op = "New" /\ vsRet.spec = newRet.spec
        /\ vsRet.err = Nil) =>
          /\ newRet.outcome.panic = ""
          /\ newRet.outcome.db.engine = newRet.spec.Type
          /\ newRet.outcome.db.sub =
                IF newRet.spec.Type = "redis" THEN newRet.spec.Redis
                ELSE newRet.spec.Postgres
    /\ (vsRet.op = "ValidateSpec" /\ vsRet.spec.Type \notin {"redis", "postgres"}) =>
          vsRet.err.kind = "error"
    /\ (newRet.op = "New" /\ newRet.spec.Type \notin {"redis", "postgres"}) =>
          newRet.outcome = [panic |-> "not supported vector db type"]

\* A postgres spec that validated and was then built as the postgres engine.
C11_Witness ==
    /\ vsRet.op = "ValidateSpec" /\ vsRet.err = Nil
    /\ newRet.op = "New" /\ newRet.spec = vsRet.spec
    /\ newRet.spec.Type = "postgres"
    /\ newRet.outcome.panic = ""
    /\ newRet.outcome.db.engine = "postgres"

-----------------------------------------------------------------------------
(* DropIndex. *)

\* The number of operations (creates, inserts, drops) of one run.
MaxSteps == 4

\* The texts that follow "<index>:" in the keys of the hashes written.
KeySuffixes ==
    UNION {{FmtS(DocPool[r][f]) : f \in {"id", "keys"} \cap DOMAIN DocPool[r]} : r \in Refs}
        \cup {UuidString(n) : n \in 1..uuidNext}

\* strings.HasPrefix on the server's side, for the keys of the hashes.
HasPrefix(key, prefix) == \E rest \in KeySuffixes : key = prefix \o rest

\* A variant that never asks for the documents to be deleted.
DropIndexCommand_NoDd(index, deleteDocuments) ==
    [Commands |-> <<"FT.DROPINDEX">>, Keys |-> <<index>>, Args |-> <<>>]

\* The command DropIndex builds: FT.DROPINDEX <index> [DD]
DropIndexCommand(index, deleteDocuments) ==
    [Commands |-> <<"FT.DROPINDEX">>, Keys |-> <<index>>,
     Args |-> IF deleteDocuments THEN <<"DD">> ELSE <<>>]

\* The server's handling of FT.DROPINDEX: <<indexes after, hashes after,
\* reply>>. An unknown index is an error and changes nothing; otherwise the
\* definition goes, and with DD so do the hashes under the index's prefixes.
FtDropIndex(store, h, cmd) ==
    IF ~FtHasIndex(store, cmd.Keys[1])
    THEN <<store, h, Err("Unknown Index name")>>
    ELSE LET ix == CHOOSE i \in 1..Len(store) : store[i].name = cmd.Keys[1]
             kept == {k \in DOMAIN h :
                        ~\E j \in 1..Len(store[ix].prefix) : HasPrefix(k, store[ix].prefix[j])}
         IN  <<SubSeq(store, 1, ix - 1) \o SubSeq(store, ix + 1, Len(store)),
               IF cmd.Args = <<"DD">> THEN [k \in kept |-> h[k]] ELSE h,
               Nil>>

DropIndex(index, deleteDocuments) ==
    /\ LET reply == FtDropIndex(ftIndexes, hashes, DropIndexCommand(index, deleteDocuments))
       IN /\ ftIndexes' = reply[1]
          /\ hashes' = reply[2]
          /\ dropRet' = [op |-> "DropIndex", n |-> dropRet.n + 1,
                         index |-> index, deleteDocuments |-> deleteDocuments,
                         err |-> reply[3],
                         indexesBefore |-> ftIndexes, hashesBefore |-> hashes,
                         indexesAfter |-> reply[1], hashesAfter |-> reply[2]]
    /\ UNCHANGED <<pc, callArgs, callRet, ftLog, heap, uuidNext, insRet, nCmds, queryVars, encRet, registry, inited, provRet, arc, cachePuts, cacheRet>>

\* The documents dropped indexes are filled from.
DropRefs == {1, 4}

\* The operations made so far.
DropSteps == NumCalls + nCmds + dropRet.n

\* One caller creates indexes, inserts documents and drops indexes.
NextDrop ==
    \/ \E index \in {i \in InsertIndexes : NumCalls < MaxCalls /\ DropSteps < MaxSteps} :
          CreateIndexIfNotExists_Begin(1, index, "schemaA")
    \/ CreateIndexIfNotExists_Create(1)
    \/ \E index \in InsertIndexes,
          ref \in {r \in DropRefs : nCmds < MaxCmds /\ DropSteps < MaxSteps} :
          InsertWithHash(index, ref, SomeOrder(DOMAIN heap[ref]), FALSE)
    \/ \E index \in {i \in IndexNames : DropSteps < MaxSteps}, dd \in BOOLEAN :
          DropIndex(index, dd)

SpecDrop == InitInsert /\ [][NextDrop]_vars

\* The keys of the hashes stored under an index name.
KeysUnder(h, index) == {k \in DOMAIN h : HasPrefix(k, index \o ":")}

\* C12: DropIndex on a name the store has no index for returns an error
\* and leaves indexes and documents unchanged; on an existing index it
\* returns nil and removes the index definition, and it removes the
\* documents under the index exactly when deleteDocuments is set.
C12_DropIndex ==
    dropRet.op = "DropIndex" =>
       LET known == \E i \in 1..Len(dropRet.indexesBefore) :
                       dropRet.indexesBefore[i].name = dropRet.index
           names(store) == {store[i].name : i \in 1..Len(store)}
       IN  /\ ~known =>
                 /\ dropRet.err.kind = "error"
                 /\ dropRet.indexesAfter = dropRet.indexesBefore
                 /\ dropRet.hashesAfter = dropRet.hashesBefore
           /\ known =>
                 /\ dropRet.err = Nil
                 /\ names(dropRet.indexesAfter) =
                       names(dropRet.indexesBefore) \ {dropRet.index}
                 /\ Len(dropRet.indexesAfter) = Len(dropRet.indexesBefore) - 1
                 /\ dropRet.deleteDocuments =>
                       /\ DOMAIN dropRet.hashesAfter =
                             DOMAIN dropRet.hashesBefore
                                \ KeysUnder(dropRet.hashesBefore, dropRet.index)
                       /\ \A k \in DOMAIN dropRet.hashesAfter :
                             dropRet.hashesAfter[k] = dropRet.hashesBefore[k]
                 /\ ~dropRet.deleteDocuments =>
                       dropRet.hashesAfter = dropRet.hashesBefore

\* An index holding a document is dropped together with its documents,
\* while a document under another index name stays.
C12_Witness ==
    /\ dropRet.op = "DropIndex" /\ dropRet.deleteDocuments
    /\ dropRet.err = Nil
    /\ KeysUnder(dropRet.hashesBefore, dropRet.index) # {}
    /\ dropRet.hashesAfter # <<>>
    /\ dropRet.hashesAfter # dropRet.hashesBefore

-----------------------------------------------------------------------------
(* Vector encoding. *)

MaxDim == 3

\* Bit patterns of float32 components: 1.0, 0.1, -0.0, a NaN with payload.
Float32Pool == {F32One, <<61, 204, 204, 205>>, <<128, 0, 0, 0>>, <<127, 192, 0, 1>>}

\* Bit patterns of float64 components: 1.0, 1/3, -0.0, a NaN with payload.
Float64Pool ==
    {F64One, <<63, 213, 85, 85, 85, 85, 85, 86>>,
     <<128, 0, 0, 0, 0, 0, 0, 0>>, <<127, 248, 0, 0, 0, 0, 0, 1>>}

Encode32(v) ==
    /\ encRet' = [op |-> "float32VectorToString", width |-> 4, v |-> v,
                  out |-> float32VectorToString(v)]
    /\ UNCHANGED <<indexVars, insertVars, queryVars, dropRet, registry, inited, provRet, arc, cachePuts, cacheRet>>

Encode64(v) ==
    /\ encRet' = [op |-> "float64VectorToString", width |-> 8, v |-> v,
                  out |-> float64VectorToString(v)]
    /\ UNCHANGED <<indexVars, insertVars, queryVars, dropRet, registry, inited, provRet, arc, cachePuts, cacheRet>>

NextEncode ==
    \/ \E n \in 0..MaxDim : \E v \in [1..n -> Float32Pool] : Encode32(v)
    \/ \E n \in 0..MaxDim : \E v \in [1..n -> Float64Pool] : Encode64(v)

SpecEncode == InitIndexOnly /\ [][NextEncode]_vars

\* Bits 8j..8j+7 of a bit pattern of the given width in bytes.
BitsByte(bits, width, j) == bits[width - j]

\* Reading the components back: component k is rebuilt, most significant
\* byte first, from the width bytes at offset k * width.
DecodeLE(bytes, width) ==
    [k \in 1..(Len(bytes) \div width) |->
        [d \in 1..width |-> bytes[(k - 1) * width + (width - d) + 1]]]

\* C13: the encoding of n components has n * width bytes, byte j of
\* component k (at offset k * width + j) is bits 8j..8j+7 of the component's
\* bit pattern, and decoding the result gives the vector back.
C13_FixedWidthLittleEndian ==
    encRet.op # "none" =>
       LET w == encRet.width
           v == encRet.v
           b == encRet.out.bytes
       IN  /\ w = (IF encRet.op = "float32VectorToString" THEN 4 ELSE 8)
           /\ Len(b) = Len(v) * w
           /\ \A k \in 0..(Len(v) - 1) : \A j \in 0..(w - 1) :
                 b[k * w + j + 1] = BitsByte(v[k + 1], w, j)
           /\ DecodeLE(b, w) = v

\* Two different 32-bit components, encoded into 8 bytes.
C13_Witness ==
    /\ encRet.op = "float32VectorToString"
    /\ encRet.v = <<F32One, <<61, 204, 204, 205>>>>
    /\ encRet.out = [bytes |-> <<0, 0, 128, 63, 205, 204, 204, 61>>]

-----------------------------------------------------------------------------
(* Find: the result set as a whole. *)

\* C14: a successful Find returns the store's total and exactly one
\* document per row of the reply, the i-th document being that of the i-th
\* row (its id is the row's id or key, its other fields are the row's); a
\* failed Find returns count 0, no documents and the error of the reply.
C14_NoResortNoDrop ==
    findRet.op = "Find" =>
       /\ findRet.reply.err = Nil =>
             /\ findRet.err = Nil
             /\ findRet.total = findRet.reply.total
             /\ Len(findRet.docs) = Len(findRet.reply.docs)
             /\ \A i \in 1..Len(findRet.reply.docs) :
                   /\ IdRule(i)
                   /\ \A k \in DOMAIN RowIn(i).Doc \ {"distance", "score", "id"} :
                         k \in DOMAIN DocOut(i) /\ DocOut(i)[k].v = RowIn(i).Doc[k]
                   /\ DOMAIN DocOut(i) \ {"score", "id"} =
                         DOMAIN RowIn(i).Doc \ {"distance", "score", "id"}
       /\ findRet.reply.err # Nil =>
             /\ findRet.err = findRet.reply.err
             /\ findRet.total = 0
             /\ findRet.docs = <<>>

\* A reply of two different rows out of a larger total, returned in order.
C14_Witness ==
    /\ findRet.op = "Find" /\ findRet.err = Nil
    /\ Len(findRet.docs) = 2
    /\ findRet.total = 3
    /\ RowIn(1).Key = <<"d", ":", "e">> /\ RowIn(2).Key = <<"d", ":", "a">>
    /\ DocOut(1).id.v = <<"d", ":", "e">> /\ DocOut(2).id.v = <<"d", ":", "a">>

-----------------------------------------------------------------------------
(* The caller's document after an insert. *)

\* The positions of the last call that hold document r.
PositionsOf(r) == {i \in 1..Len(insRet.refs) : insRet.refs[i] = r}

\* C15 (as claimed): an insert leaves every field the caller supplied as it
\* was; a document that had `id` is not modified; a document without `id`
\* gains exactly the key `id`, holding its `keys` value if it has one and
\* the generated identifier otherwise, and the key returned for it is
\* "<index>:" followed by that `id` value.
C15_EffectOnDocument ==
    insRet.op # "none" =>
        \A r \in Refs :
            LET before == insRet.before[r]
                after == heap[r]
            IN  /\ PositionsOf(r) = {} => after = before
                /\ PositionsOf(r) # {} =>
                      /\ \A f \in DOMAIN before : after[f] = before[f]
                      /\ "id" \in DOMAIN before => after = before
                      /\ "id" \notin DOMAIN before =>
                            /\ DOMAIN after = DOMAIN before \cup {"id"}
                            /\ "keys" \in DOMAIN before => after["id"] = before["keys"]
                            /\ "keys" \notin DOMAIN before =>
                                  /\ after["id"].t = "string"
                                  /\ \E n \in (insRet.uuidsBefore + 1)..uuidNext :
                                        after["id"].v = UuidString(n)
                            /\ \A i \in PositionsOf(r) :
                                  insRet.keys[i] = insRet.index \o ":" \o IdText(after["id"])

-----------------------------------------------------------------------------
(* Insert, then search: the server answers FT.SEARCH from the hashes it    *)
(* holds.  The strings of such a reply are the stored wire strings (Text   *)
(* or Bytes); the distance the server computes is given character by       *)
(* character, as ParseFloat reads it.                                      *)

\* The row the server returns for the hash at key k.
StoredRow(h, k) ==
    [Key |-> Text(k), Doc |-> MapSet(h[k], "distance", <<"0", ".", "5">>)]

\* A stored row of the index together with the order its fields are ranged over.
StoredChoices(h, index) ==
    UNION {{<<k, o>> : o \in Perms(DOMAIN StoredRow(h, k).Doc)} : k \in KeysUnder(h, index)}

\* The server's answers to FT.SEARCH on an index: an error when it has no
\* such index, else the hashes under the index, in the order of picks.
FtSearch(store, h, index, picks) ==
    IF ~FtHasIndex(store, index)
    THEN [total |-> 0, docs |-> <<>>, err |-> Err(index \o ": no such index")]
    ELSE FtSearchReply(Len(picks), [i \in 1..Len(picks) |-> StoredRow(h, picks[i][1])])

\* The rankings of all the hashes under the index, one field order each.
Rankings(h, index) ==
    LET n == Cardinality(KeysUnder(h, index))
    IN  {p \in [1..n -> StoredChoices(h, index)] :
            \A i, j \in 1..n : i # j => p[i][1] # p[j][1]}

\* One caller creates indexes and inserts documents, then searches once.
NextRoundTrip ==
    \/ \E index \in {i \in InsertIndexes :
                       findRet = NoFind /\ NumCalls < MaxCalls /\ DropSteps < MaxSteps} :
          CreateIndexIfNotExists_Begin(1, index, "schemaA")
    \/ CreateIndexIfNotExists_Create(1)
    \/ \E index \in InsertIndexes,
          ref \in {r \in Refs : findRet = NoFind /\ nCmds < MaxCmds /\ DropSteps < MaxSteps} :
          InsertWithHash(index, ref, SomeOrder(DOMAIN heap[ref]), FALSE)
    \/ \E index \in {i \in InsertIndexes : findRet = NoFind /\ pc[1] # "probed"} :
          \E picks \in Rankings(hashes, index) :
             Find(FtSearch(ftIndexes, hashes, index, picks),
                  [i \in 1..Len(picks) |-> picks[i][2]])

SpecRoundTrip == InitInsert /\ [][NextRoundTrip]_vars

\* C16 (as claimed): a document written by InsertWithHash and then returned
\* by Find carries as `id` the key string InsertWithHash returned for it.
C16_IdRoundTrip ==
    (insRet.op = "InsertWithHash" /\ findRet.op = "Find" /\ findRet.err = Nil) =>
        \A i \in FoundRows :
            RowIn(i).Key = Text(insRet.keys[1]) =>
               DocOut(i).id = GoString(Text(insRet.keys[1]))

-----------------------------------------------------------------------------
(* The fields an upsert command carries. *)

\* The wire string a field value is stored as: the little-endian bytes of a
\* float vector, the %v text of anything else.
StoredAs(val) ==
    CASE val.t = "[]float32" -> [bytes |-> Concat([k \in 1..Len(val.v) |-> LittleEndian(val.v[k])])]
      [] val.t = "[]float64" -> [bytes |-> Concat([k \in 1..Len(val.v) |-> LittleEndian(val.v[k])])]
      [] val.t = "string" -> [text |-> val.v]
      [] val.t = "int" -> [text |-> IntToStr(val.v)]
      [] val.t = "[]int" -> [text |-> FmtV(val)]

\* The command at position i carries exactly the fields of doc, one pair each.
CarriesExactly(i, doc) ==
    /\ Len(Submitted[i].Args) = 2 * Cardinality(DOMAIN doc)
    /\ CmdFields(Submitted[i]) = DOMAIN doc
    /\ \A f \in DOMAIN doc : CmdValue(Submitted[i], f) = StoredAs(doc[f])

\* C17 as stated: every command carries exactly the fields of its document
\* as the caller supplied it.
C17_Original ==
    insRet.op # "none" =>
        \A i \in 1..Len(insRet.refs) : CarriesExactly(i, insRet.before[insRet.refs[i]])

\* C17, amended: every command carries exactly one field/value pair per
\* field of its document as the document is when the command is built:
\* as the caller supplied it, except that a document standing also at an
\* earlier position of the same batch has by then been given its `id`,
\* which the later command writes.  So at a document's first position a
\* generated or promoted identifier is not written as an `id` field, and an
\* explicit `id` is.
C17_StoredFields ==
    insRet.op # "none" =>
        \A i \in 1..Len(insRet.refs) :
            LET supplied == insRet.before[insRet.refs[i]]
                again == \E j \in 1..(i - 1) : insRet.refs[j] = insRet.refs[i]
            IN  /\ ~again => CarriesExactly(i, supplied)
                /\ again =>
                      /\ CarriesExactly(i, heap[insRet.refs[i]])
                      /\ "id" \in CmdFields(Submitted[i])
                      /\ DOMAIN heap[insRet.refs[i]] = DOMAIN supplied \cup {"id"}
                /\ ("id" \in CmdFields(Submitted[i])) <=> ("id" \in DOMAIN supplied \/ again)

\* A batch holding twice the document with only a float32 vector: the first
\* command writes the vector alone, the second also the generated id.
C17_Witness ==
    /\ IsBatch /\ Len(insRet.refs) >= 2
    /\ insRet.refs[1] = 4 /\ insRet.refs[2] = 4
    /\ CmdFields(Submitted[1]) = {"vec"}
    /\ CmdFields(Submitted[2]) = {"vec", "id"}
    /\ CmdValue(Submitted[1], "vec") = [bytes |-> <<0, 0, 128, 63, 0, 0, 0, 63>>]

-----------------------------------------------------------------------------
(* Determinism of the row conversion. *)

\* C18 (as claimed): converting the same row again, whatever order the
\* range over its fields takes, yields the document mapping Find returned.
C18_ConversionDeterministic ==
    \A i \in FoundRows :
        \A order \in Perms(DOMAIN RowIn(i).Doc) :
            ConvertDoc(RowIn(i), order) = DocOut(i)

-----------------------------------------------------------------------------
(* Providers: the type registry and the Qwen adapter. *)

\* The type tags of the adapter variants.
QwenProviderType == "qwen"
OpenAIProviderType == "openai"

\* The adapter variants, by the name of their Go type.
Variants == {"QwenProvider", "OpenAIProvider"}

\* The tag a variant's init registers its type under.
RegisteredTag(variant) ==
    IF variant = "QwenProvider" THEN QwenProviderType ELSE OpenAIProviderType

\* The provider specs routes are activated with.
ProviderSpecs ==
    [ProviderType : {QwenProviderType, OpenAIProviderType, "unregistered-vendor"},
     APIKey : {"", "sk"}, BaseURL : {"", "https://u"}, Model : {"", "m", "qwen-max"}]

\* The zero value of BaseProvider, and of an adapter type embedding it.
ZeroBase == [ready |-> FALSE]
ZeroValue(type) == [type |-> type, BaseProvider |-> ZeroBase]

\* BaseProvider.validate: the fields common to all variants.
BaseProvider_validate(base, spec) ==
    IF spec.APIKey = "" THEN Err("apiKey is required")
    ELSE IF spec.Model = "" THEN Err("model is required")
    ELSE Nil

\* BaseProvider.init: setup from the validated spec.
BaseProvider_init(base, spec) ==
    [ready |-> TRUE, url |-> spec.BaseURL, model |-> spec.Model, key |-> spec.APIKey]

\* A variant of QwenProvider.Type that reports the tag of another adapter.
QwenProvider_Type_Other(p) == OpenAIProviderType

\* func (p *QwenProvider) init(spec)
QwenProvider_init(p, spec) ==
    [p EXCEPT !.BaseProvider = BaseProvider_init(p.BaseProvider, spec)]

\* func (p *QwenProvider) validate(spec) error
QwenProvider_validate(p, spec) == BaseProvider_validate(p.BaseProvider, spec)

\* func (p *QwenProvider) Type() string
QwenProvider_Type(p) == QwenProviderType

\* The methods of the Provider interface, dispatched on the dynamic type.
Provider_init(p, spec) ==
    IF p.type = "QwenProvider" THEN QwenProvider_init(p, spec)
    ELSE [p EXCEPT !.BaseProvider = BaseProvider_init(p.BaseProvider, spec)]
Provider_validate(p, spec) ==
    IF p.type = "QwenProvider" THEN QwenProvider_validate(p, spec)
    ELSE BaseProvider_validate(p.BaseProvider, spec)
Provider_Type(p) ==
    IF p.type = "QwenProvider" THEN QwenProvider_Type(p) ELSE OpenAIProviderType

\* ProviderTypeRegistry[tag] = reflect.TypeOf(T{}), and the record of it.
Registration(variant) ==
    LET tag == RegisteredTag(variant)
    IN  /\ registry' = MapSet(registry, tag, variant)
        /\ provRet' = [op |-> "register", tag |-> tag, type |-> variant,
                       before |-> registry, after |-> MapSet(registry, tag, variant)]

\* The package init of a variant, run once at process start.
PackageInit(variant) ==
    /\ variant \notin inited
    /\ inited' = inited \cup {variant}
    /\ Registration(variant)
    /\ UNCHANGED <<redisVars, arc, cachePuts, cacheRet>>

\* The same registration made again.
RegisterAgain(variant) ==
    /\ variant \in inited
    /\ Registration(variant)
    /\ UNCHANGED <<redisVars, inited, arc, cachePuts, cacheRet>>

\* Resolve: look the tag up, make a fresh instance of the registered type,
\* validate the spec and, when it is valid, init the instance.
Resolve(spec) ==
    /\ provRet' =
          IF spec.ProviderType \notin DOMAIN registry
          THEN [op |-> "Resolve", spec |-> spec, found |-> FALSE,
                err |-> Err("unknown provider type: " \o spec.ProviderType)]
          ELSE LET p == ZeroValue(registry[spec.ProviderType])
                   err == Provider_validate(p, spec)
               IN  [op |-> "Resolve", spec |-> spec, found |-> TRUE,
                    err |-> err,
                    provider |-> IF err = Nil THEN Provider_init(p, spec) ELSE p,
                    type |-> Provider_Type(p)]
    /\ UNCHANGED <<redisVars, registry, inited, arc, cachePuts, cacheRet>>

NextProviders ==
    \/ \E variant \in Variants : PackageInit(variant)
    \/ \E variant \in Variants : RegisterAgain(variant)
    \/ \E spec \in ProviderSpecs : Resolve(spec)

SpecProviders == InitIndexOnly /\ [][NextProviders]_vars

\* C19: once every package init has run the registry maps the Qwen tag to
\* the Qwen adapter type; a registration sets the entry of its tag and
\* leaves every other entry as it was; an instance of the type found under a
\* tag reports that tag from Type(); and for a Qwen instance validate gives
\* the verdict of the base validate and init leaves what the base init does.
C19_RegistryConsistency ==
    /\ inited = Variants =>
          /\ "qwen" \in DOMAIN registry
          /\ registry["qwen"] = "QwenProvider"
    /\ provRet.op = "register" =>
          /\ DOMAIN provRet.after = DOMAIN provRet.before \cup {provRet.tag}
          /\ provRet.after[provRet.tag] = provRet.type
          /\ \A t \in DOMAIN provRet.before \ {provRet.tag} :
                provRet.after[t] = provRet.before[t]
          /\ registry = provRet.after
    /\ (provRet.op = "Resolve" /\ provRet.found) =>
          /\ provRet.type = provRet.spec.ProviderType
          /\ provRet.provider.type = "QwenProvider" =>
                /\ provRet.err =
                      (IF provRet.spec.APIKey = "" THEN Err("apiKey is required")
                       ELSE IF provRet.spec.Model = "" THEN Err("model is required")
                       ELSE Nil)
                /\ provRet.err = Nil =>
                      provRet.provider.BaseProvider =
                         [ready |-> TRUE, url |-> provRet.spec.BaseURL,
                          model |-> provRet.spec.Model, key |-> provRet.spec.APIKey]
                /\ provRet.err # Nil => provRet.provider.BaseProvider = [ready |-> FALSE]

\* A valid Qwen spec resolved after both adapters registered.
C19_Witness ==
    /\ inited = {"QwenProvider", "OpenAIProvider"}
    /\ DOMAIN registry = {"qwen", "openai"}
    /\ provRet.op = "Resolve" /\ provRet.found /\ provRet.err = Nil
    /\ provRet.spec.ProviderType = "qwen"
    /\ provRet.type = "qwen"
    /\ provRet.provider.BaseProvider.ready

-----------------------------------------------------------------------------
(* The response cache: cache.get / cache.put over an ARC cache
   (lru.ARCCache of hashicorp/golang-lru: two resident LRU lists t1, t2,
   two ghost lists b1, b2 of evicted keys, and the target size p of t1). *)

MaxCacheOps == 5

\* The sizes caches are made with, the keys and the items put.
CacheSizes == {1, 2}
CacheKeys == {"k1", "k2", "k3"}
CacheItems == {"itemA", "itemB"}

\* The nil *cacheItem.
NilItem == "nil"

\* An LRU list (simplelru.LRU): entries [k, v], the oldest first.
LruContains(l, key) == \E i \in 1..Len(l) : l[i].k = key
LruPeek(l, key) == l[CHOOSE i \in 1..Len(l) : l[i].k = key].v
LruRemove(l, key) == SelectSeq(l, LAMBDA en : en.k # key)
LruRemoveOldest(l) == IF l = <<>> THEN l ELSE Tail(l)

\* LRU.Add: an entry already present gets the value and becomes the newest;
\* else the entry is added, and the oldest goes when the list is over size.
LruAdd(l, key, value, size) ==
    IF LruContains(l, key)
    THEN Append(LruRemove(l, key), [k |-> key, v |-> value])
    ELSE LET added == Append(l, [k |-> key, v |-> value])
         IN  IF Len(added) > size THEN Tail(added) ELSE added

\* lru.NewARC(size)
NewARC(size) ==
    [size |-> size, p |-> 0, t1 |-> <<>>, t2 |-> <<>>, b1 |-> <<>>, b2 |-> <<>>]

\* ARCCache.replace: move the oldest of t1 or of t2 to its ghost list.
ArcReplace(c, b2ContainsKey) ==
    IF Len(c.t1) > 0 /\ (Len(c.t1) > c.p \/ (Len(c.t1) = c.p /\ b2ContainsKey))
    THEN [c EXCEPT !.t1 = Tail(c.t1),
                   !.b1 = LruAdd(c.b1, c.t1[1].k, NilItem, c.size)]
    ELSE IF Len(c.t2) > 0
    THEN [c EXCEPT !.t2 = Tail(c.t2),
                   !.b2 = LruAdd(c.b2, c.t2[1].k, NilItem, c.size)]
    ELSE c

\* Make room when the resident lists are full.
ArcMakeRoom(c, b2ContainsKey) ==
    IF Len(c.t1) + Len(c.t2) >= c.size THEN ArcReplace(c, b2ContainsKey) ELSE c

\* ARCCache.Add
ArcAdd(c, key, value) ==
    IF LruContains(c.t1, key)
    THEN [c EXCEPT !.t1 = LruRemove(c.t1, key),
                   !.t2 = LruAdd(c.t2, key, value, c.size)]
    ELSE IF LruContains(c.t2, key)
    THEN [c EXCEPT !.t2 = LruAdd(c.t2, key, value, c.size)]
    ELSE IF LruContains(c.b1, key)
    THEN LET delta == IF Len(c.b2) > Len(c.b1) THEN Len(c.b2) \div Len(c.b1) ELSE 1
             grown == [c EXCEPT !.p = IF c.p + delta >= c.size THEN c.size ELSE c.p + delta]
             room == ArcMakeRoom(grown, FALSE)
         IN  [room EXCEPT !.b1 = LruRemove(room.b1, key),
                          !.t2 = LruAdd(room.t2, key, value, c.size)]
    ELSE IF LruContains(c.b2, key)
    THEN LET delta == IF Len(c.b1) > Len(c.b2) THEN Len(c.b1) \div Len(c.b2) ELSE 1
             shrunk == [c EXCEPT !.p = IF delta >= c.p THEN 0 ELSE c.p - delta]
             room == ArcMakeRoom(shrunk, TRUE)
         IN  [room EXCEPT !.b2 = LruRemove(room.b2, key),
                          !.t2 = LruAdd(room.t2, key, value, c.size)]
    ELSE LET room == ArcMakeRoom(c, FALSE)
             trim1 == IF Len(room.b1) > room.size - room.p
                      THEN [room EXCEPT !.b1 = LruRemoveOldest(room.b1)] ELSE room
             trim2 == IF Len(trim1.b2) > trim1.p
                      THEN [trim1 EXCEPT !.b2 = LruRemoveOldest(trim1.b2)] ELSE trim1
         IN  [trim2 EXCEPT !.t1 = LruAdd(trim2.t1, key, value, c.size)]

\* ARCCache.Get: <<cache after, value, ok>>. A hit in t1 moves the entry to
\* t2; a hit in t2 makes it the newest of t2.
ArcGet(c, key) ==
    IF LruContains(c.t1, key)
    THEN <<[c EXCEPT !.t1 = LruRemove(c.t1, key),
                     !.t2 = LruAdd(c.t2, key, LruPeek(c.t1, key), c.size)],
           LruPeek(c.t1, key), TRUE>>
    ELSE IF LruContains(c.t2, key)
    THEN <<[c EXCEPT !.t2 = LruAdd(c.t2, key, LruPeek(c.t2, key), c.size)],
           LruPeek(c.t2, key), TRUE>>
    ELSE <<c, NilItem, FALSE>>

\* newCache(size)
newCache(size) ==
    /\ arc = NoCache
    /\ arc' = NewARC(size)
    /\ UNCHANGED <<redisVars, providerVars, cachePuts, cacheRet>>

\* cache.get(key)
get(key) ==
    /\ arc # NoCache
    /\ LET got == ArcGet(arc, key)
       IN  /\ arc' = got[1]
           /\ cacheRet' = [op |-> "get", n |-> cacheRet.n + 1, key |-> key,
                           item |-> IF ~got[3] THEN NilItem ELSE got[2]]
    /\ UNCHANGED <<redisVars, providerVars, cachePuts>>

\* cache.put(key, ci)
put(key, ci) ==
    /\ arc # NoCache
    /\ arc' = ArcAdd(arc, key, ci)
    /\ cachePuts' = MapSet(cachePuts, key, ci)
    /\ cacheRet' = [op |-> "put", n |-> cacheRet.n + 1, key |-> key, item |-> ci]
    /\ UNCHANGED <<redisVars, providerVars>>

NextCache ==
    \/ \E size \in {sz \in CacheSizes : arc = NoCache} : newCache(size)
    \/ \E key \in {k \in CacheKeys : cacheRet.n < MaxCacheOps} : get(key)
    \/ \E key \in {k \in CacheKeys : cacheRet.n < MaxCacheOps}, ci \in CacheItems :
          put(key, ci)

SpecCache == InitIndexOnly /\ [][NextCache]_vars

\* The keys the cache retains.
Retained == {arc.t1[i].k : i \in 1..Len(arc.t1)} \cup {arc.t2[i].k : i \in 1..Len(arc.t2)}

\* C20: a get returns nothing or the item of the most recent put for its
\* key; every retained entry holds the item last put under its key; no key
\* is retained twice and the retained keys never exceed the capacity.
C20_CacheLookup ==
    arc # NoCache =>
       /\ cacheRet.op = "get" =>
             \/ cacheRet.item = NilItem
             \/ /\ cacheRet.key \in DOMAIN cachePuts
                /\ cacheRet.item = cachePuts[cacheRet.key]
       /\ (cacheRet.op = "get" /\ cacheRet.key \notin DOMAIN cachePuts) =>
             cacheRet.item = NilItem
       /\ \A i \in 1..Len(arc.t1) : arc.t1[i].v = cachePuts[arc.t1[i].k]
       /\ \A i \in 1..Len(arc.t2) : arc.t2[i].v = cachePuts[arc.t2[i].k]
       /\ Cardinality(Retained) = Len(arc.t1) + Len(arc.t2)
       /\ Len(arc.t1) + Len(arc.t2) <= arc.size

\* A full cache of size 2: a get of a key put twice returns the later item,
\* while another key that was put has been evicted.
C20_Witness ==
    /\ arc.size = 2 /\ Cardinality(Retained) = 2
    /\ cacheRet.op = "get" /\ cacheRet.key = "k1" /\ cacheRet.item = "itemB"
    /\ cachePuts = [k1 |-> "itemB", k2 |-> "itemA", k3 |-> "itemA"]
    /\ "k2" \notin Retained

=============================================================================
